---- MODULE Spec2Model ----
(***************************************************************************)
(* A model of the two batch scripts of the repository:                     *)
(*   generate_data.py  writes five CSV files and reconciles order totals;  *)
(*   ingest_to_db.py   loads the five CSV files into an SQLite store.      *)
(*                                                                         *)
(* Money is counted in thousandths of a currency unit ("mills"), one       *)
(* decimal finer than the two decimals round(x, 2) keeps, so that Round2   *)
(* is a real rounding and not the identity.  A CSV file is the sequence of *)
(* its data rows; `present` is the set of files that exist on disk.        *)
(***************************************************************************)
EXTENDS Integers, Sequences, FiniteSets, TLC

VARIABLES
    NUM_CUSTOMERS, NUM_PRODUCTS, NUM_ORDERS, NUM_REVIEWS,   \* generator configuration
    present,            \* names of the CSV files that exist
    customersCsv, productsCsv, ordersCsv, orderItemsCsv, reviewsCsv,
    gpc,                \* position of generate_data.main
    order_totals,       \* the mapping generate_order_items returns
    applications,       \* number of completed update_order_totals calls
    lpc,                \* position of ingest_to_db.main
    db,                 \* the store file ecom.db
    txn,                \* rows inserted by the open transaction, per table
    log,                \* tables whose insert function has completed, in order
    exitStatus,         \* process exit status of the loader (-1 while running)
    error,              \* the exception main caught and re-raised ("none": none)
    warned              \* verify_data printed the dangling-reference warning

genVars == <<NUM_CUSTOMERS, NUM_PRODUCTS, NUM_ORDERS, NUM_REVIEWS,
             customersCsv, productsCsv, ordersCsv, orderItemsCsv, reviewsCsv,
             gpc, order_totals, applications>>
loadVars == <<lpc, db, txn, log, exitStatus, error, warned>>
vars == <<genVars, present, loadVars>>

(***************************************************************************)
(* Bounds of the model.                                                    *)
(***************************************************************************)
MaxCustomers == 2
MaxProducts == 2
MaxOrders == 2
MaxReviews == 1
MaxApplications == 2

\* Values the random draws of the generator are taken from (mills).
ShippingCosts == {7500, 12250}
Quantities == {1, 3}
UnitPrices == {10000, 12350}

Files == {"customers.csv", "products.csv", "orders.csv", "order_items.csv", "reviews.csv"}

\* The five tables, empty: the schema create_database commits.
EmptyTables ==
    [customers |-> <<>>, products |-> <<>>, orders |-> <<>>, order_items |-> <<>>, reviews |-> <<>>]

\* No store file on disk.
NoDb == [exists |-> FALSE, schema |-> FALSE, old |-> FALSE, tables |-> EmptyTables]

(***************************************************************************)
(* generate_data.py                                                        *)
(***************************************************************************)

\* round(x, 2) on a non-negative amount in mills: to the nearest multiple
\* of ten mills, a tie going to the even hundredth.
Round2(x) ==
    LET q == x \div 10
        r == x % 10
    IN  IF r < 5 THEN 10 * q
        ELSE IF r > 5 THEN 10 * (q + 1)
        ELSE IF q % 2 = 0 THEN 10 * q ELSE 10 * (q + 1)

\* Mutant of CustomerIds: range(NUM_CUSTOMERS), counting from zero.
CustomerIdsFromZero == 0..(NUM_CUSTOMERS - 1)

\* list(range(1, N + 1)) in main
CustomerIds == 1..NUM_CUSTOMERS
ProductIds == 1..NUM_PRODUCTS
OrderIds == 1..NUM_ORDERS

\* random.randint(1, 5): the number of items drawn for one order
NumItemsChoices == 1..5

Min(a, b) == IF a < b THEN a ELSE b

\* random.sample(population, k): the sequences of k distinct elements
Sample(population, k) ==
    {s \in [1..k -> population] : \A i, j \in 1..k : i # j => s[i] # s[j]}

\* The item drawn for one selected product: quantity, unit_price, subtotal.
NewItem(order_id, product_id, quantity, unit_price, n) ==
    [order_item_id |-> n + 1,
     order_id |-> order_id,
     product_id |-> product_id,
     quantity |-> quantity,
     unit_price |-> unit_price,
     subtotal |-> Round2(unit_price * quantity)]

\* Mutant of TrackTotal: `=` written for `+=`.
TrackTotalOverwrite(totals, order_id, subtotal) ==
    [o \in DOMAIN totals \cup {order_id} |->
        IF o = order_id THEN subtotal ELSE totals[o]]

\* order_totals after one more item: created at 0 when absent, then +=.
TrackTotal(totals, order_id, subtotal) ==
    LET base == IF order_id \in DOMAIN totals THEN totals[order_id] ELSE 0
    IN  [o \in DOMAIN totals \cup {order_id} |->
            IF o = order_id THEN base + subtotal ELSE totals[o]]

\* What the random draws of one order come to: the selected products with
\* the quantity and unit price of each.
OrderDraws(product_ids) ==
    UNION {
      {[i \in 1..Len(sel) |-> [product_id |-> sel[i], quantity |-> q[i], unit_price |-> p[i]]] :
          q \in [1..Len(sel) -> Quantities], p \in [1..Len(sel) -> UnitPrices]} :
      sel \in UNION {Sample(product_ids, Min(k, Cardinality(product_ids))) : k \in NumItemsChoices}}

\* The inner loop of generate_order_items over the selected products of one order.
RECURSIVE ItemsOfOrder(_, _, _, _)
ItemsOfOrder(acc, order_id, draws, i) ==
    IF i > Len(draws) THEN acc
    ELSE LET item == NewItem(order_id, draws[i].product_id, draws[i].quantity,
                             draws[i].unit_price, Len(acc.items))
         IN  ItemsOfOrder([items |-> Append(acc.items, item),
                           totals |-> TrackTotal(acc.totals, order_id, item.subtotal)],
                          order_id, draws, i + 1)

\* The outer loop of generate_order_items over order_ids (a sequence).
RECURSIVE ItemsLoop(_, _, _, _)
ItemsLoop(acc, order_ids, draws, k) ==
    IF k > Len(order_ids) THEN acc
    ELSE ItemsLoop(ItemsOfOrder(acc, order_ids[k], draws[k], 1), order_ids, draws, k + 1)

\* Mutant of NewTotal: the sum is added to the total already in the row.
NewTotalAccumulating(row, totals) ==
    Round2(row.total_amount + totals[row.order_id] + row.shipping_cost)

\* The new total of one row of orders.csv in update_order_totals.
NewTotal(row, totals) ==
    Round2(totals[row.order_id] + row.shipping_cost)

\* Mutant of UpdateOrderTotals: orders.append(row) moved under the if, so
\* that only the rows whose total was updated are written back.
UpdateOrderTotalsOnlyChanged(orders, totals) ==
    LET Updated(row) == row.order_id \in DOMAIN totals
        kept == SelectSeq(orders, Updated)
    IN  [i \in 1..Len(kept) |-> [kept[i] EXCEPT !.total_amount = NewTotal(kept[i], totals)]]

\* update_order_totals: the rows written back to orders.csv.
UpdateOrderTotals(orders, totals) ==
    [i \in 1..Len(orders) |->
        IF orders[i].order_id \in DOMAIN totals
        THEN [orders[i] EXCEPT !.total_amount = NewTotal(orders[i], totals)]
        ELSE orders[i]]

SeqOf(S) == [i \in 1..Cardinality(S) |-> i]

GenInit ==
    /\ NUM_CUSTOMERS \in 0..MaxCustomers
    /\ NUM_PRODUCTS \in 0..MaxProducts
    /\ NUM_ORDERS \in 0..MaxOrders
    /\ NUM_REVIEWS \in 0..MaxReviews
    /\ present = {}
    /\ customersCsv = <<>>
    /\ productsCsv = <<>>
    /\ ordersCsv = <<>>
    /\ orderItemsCsv = <<>>
    /\ reviewsCsv = <<>>
    /\ gpc = "customers"
    /\ order_totals = <<>>
    /\ applications = 0

LoadIdle ==
    /\ lpc = "idle"
    /\ db = NoDb
    /\ txn = EmptyTables
    /\ log = <<>>
    /\ exitStatus = -1
    /\ error = "none"
    /\ warned = FALSE

Init == GenInit /\ LoadIdle

GenerateCustomers ==
    /\ gpc = "customers"
    /\ present' = present \cup {"customers.csv"}
    /\ customersCsv' = [i \in 1..NUM_CUSTOMERS |-> [customer_id |-> i, email |-> i]]
    /\ gpc' = "products"
    /\ UNCHANGED <<NUM_CUSTOMERS, NUM_PRODUCTS, NUM_ORDERS, NUM_REVIEWS, productsCsv,
                   ordersCsv, orderItemsCsv, reviewsCsv, order_totals, applications, loadVars>>

GenerateProducts ==
    /\ gpc = "products"
    /\ present' = present \cup {"products.csv"}
    /\ productsCsv' = [i \in 1..NUM_PRODUCTS |-> [product_id |-> i, sku |-> i]]
    /\ gpc' = "orders"
    /\ UNCHANGED <<NUM_CUSTOMERS, NUM_PRODUCTS, NUM_ORDERS, NUM_REVIEWS, customersCsv,
                   ordersCsv, orderItemsCsv, reviewsCsv, order_totals, applications, loadVars>>

GenerateOrders ==
    /\ gpc = "orders"
    /\ present' = present \cup {"orders.csv"}
    /\ IF NUM_ORDERS >= 1 /\ CustomerIds = {}
       THEN \* random.choice([]) raises IndexError after the header was written
            /\ ordersCsv' = <<>>
            /\ gpc' = "error"
       ELSE /\ \E cust \in [1..NUM_ORDERS -> CustomerIds], ship \in [1..NUM_ORDERS -> ShippingCosts] :
                 ordersCsv' = [i \in 1..NUM_ORDERS |->
                                 [order_id |-> i, customer_id |-> cust[i],
                                  shipping_cost |-> ship[i], total_amount |-> 0]]
            /\ gpc' = "order_items"
    /\ UNCHANGED <<NUM_CUSTOMERS, NUM_PRODUCTS, NUM_ORDERS, NUM_REVIEWS, customersCsv,
                   productsCsv, orderItemsCsv, reviewsCsv, order_totals, applications, loadVars>>

GenerateOrderItems ==
    /\ gpc = "order_items"
    /\ \E draws \in [1..NUM_ORDERS -> OrderDraws(ProductIds)] :
         LET out == ItemsLoop([items |-> <<>>, totals |-> <<>>], SeqOf(OrderIds), draws, 1)
         IN  /\ orderItemsCsv' = out.items
             /\ order_totals' = out.totals
             /\ ordersCsv' = UpdateOrderTotals(ordersCsv, out.totals)
    /\ present' = present \cup {"order_items.csv"}
    /\ applications' = applications + 1
    /\ gpc' = "reviews"
    /\ UNCHANGED <<NUM_CUSTOMERS, NUM_PRODUCTS, NUM_ORDERS, NUM_REVIEWS, customersCsv,
                   productsCsv, reviewsCsv, loadVars>>

GenerateReviews ==
    /\ gpc = "reviews"
    /\ present' = present \cup {"reviews.csv"}
    /\ IF NUM_REVIEWS >= 1 /\ (ProductIds = {} \/ CustomerIds = {})
       THEN /\ reviewsCsv' = <<>>
            /\ gpc' = "error"
       ELSE /\ \E prod \in [1..NUM_REVIEWS -> ProductIds], cust \in [1..NUM_REVIEWS -> CustomerIds] :
                 reviewsCsv' = [i \in 1..NUM_REVIEWS |->
                                  [review_id |-> i, product_id |-> prod[i], customer_id |-> cust[i]]]
            /\ gpc' = "done"
    /\ UNCHANGED <<NUM_CUSTOMERS, NUM_PRODUCTS, NUM_ORDERS, NUM_REVIEWS, customersCsv,
                   productsCsv, ordersCsv, orderItemsCsv, order_totals, applications, loadVars>>

\* update_order_totals('orders.csv', order_totals) called again on the
\* reconciled file with the mapping generate_order_items returned.
Reconcile ==
    /\ gpc = "reviews"
    /\ applications >= 1
    /\ applications < MaxApplications
    /\ ordersCsv' = UpdateOrderTotals(ordersCsv, order_totals)
    /\ applications' = applications + 1
    /\ UNCHANGED <<NUM_CUSTOMERS, NUM_PRODUCTS, NUM_ORDERS, NUM_REVIEWS, present, customersCsv,
                   productsCsv, orderItemsCsv, reviewsCsv, gpc, order_totals, loadVars>>

Next ==
    \/ GenerateCustomers
    \/ GenerateProducts
    \/ GenerateOrders
    \/ GenerateOrderItems
    \/ GenerateReviews
    \/ Reconcile

Spec == Init /\ [][Next]_vars

(***************************************************************************)
(* ingest_to_db.py                                                         *)
(***************************************************************************)

\* Bound on the data rows of an input file (customers.csv may hold one more,
\* so that two customers can share an email).
MaxRows == 1

\* Identifiers, emails and stock-keeping codes that occur in input files.
Ids == {1, 2}

\* A numeric field whose text int() or float() cannot parse.
NotANumber == -1

\* Ratings that occur in reviews.csv: one inside and one outside 1..5.
RatingCells == {5, 6}

\* A store left by an earlier run, with rows in it.
OldDb ==
    [exists |-> TRUE, schema |-> TRUE, old |-> TRUE,
     tables |-> [EmptyTables EXCEPT !.customers = <<[customer_id |-> 1, email |-> 1]>>]]

\* The rows the five input files may hold.
CustomerRows == [customer_id : Ids, email : Ids]
ProductRows == [product_id : Ids, sku : Ids, price : {10000, NotANumber}]
OrderRows == [order_id : Ids, customer_id : Ids, shipping_cost : {7500, NotANumber},
              total_amount : {17500}]
OrderItemRows == [order_id : Ids, product_id : Ids, subtotal : {10000, NotANumber}]
ReviewRows == [product_id : Ids, customer_id : Ids, rating : RatingCells]

UpTo(RowSet, n) == UNION {[1..k -> RowSet] : k \in 0..n}

\* The possible contents of the input file read into table t.
FileRows(t) ==
    CASE t = "customers" -> UpTo(CustomerRows, MaxRows + 1)
      [] t = "products" -> UpTo(ProductRows, MaxRows)
      [] t = "orders" -> UpTo(OrderRows, MaxRows)
      [] t = "order_items" ->
            {[i \in 1..Len(s) |-> [order_item_id |-> i, order_id |-> s[i].order_id,
                                   product_id |-> s[i].product_id, subtotal |-> s[i].subtotal]] :
                s \in UpTo(OrderItemRows, MaxRows)}
      [] t = "reviews" ->
            {[i \in 1..Len(s) |-> [review_id |-> i, product_id |-> s[i].product_id,
                                   customer_id |-> s[i].customer_id, rating |-> s[i].rating]] :
                s \in UpTo(ReviewRows, MaxRows)}

\* The file insert_<t> opens.
FileOf(t) ==
    CASE t = "customers" -> "customers.csv"
      [] t = "products" -> "products.csv"
      [] t = "orders" -> "orders.csv"
      [] t = "order_items" -> "order_items.csv"
      [] t = "reviews" -> "reviews.csv"

\* The INTEGER PRIMARY KEY column of each table.
PrimaryKey(t, row) ==
    CASE t = "customers" -> row.customer_id
      [] t = "products" -> row.product_id
      [] t = "orders" -> row.order_id
      [] t = "order_items" -> row.order_item_id
      [] t = "reviews" -> row.review_id

\* The for loop of insert_<t>: int() or float() raises ValueError on a
\* malformed numeric field, before executemany runs.
ParseFails(t, rows) ==
    \E i \in 1..Len(rows) :
        CASE t = "products" -> rows[i].price = NotANumber
          [] t = "orders" -> rows[i].shipping_cost = NotANumber
          [] t = "order_items" -> rows[i].subtotal = NotANumber
          [] OTHER -> FALSE

\* Mutant of ForeignKeysEnforced: PRAGMA foreign_keys = ON.
ForeignKeysOn == TRUE

\* sqlite3.connect leaves PRAGMA foreign_keys at its default, off: the
\* declared FOREIGN KEY clauses are not enforced.
ForeignKeysEnforced == FALSE

HasRow(table, field, value) == \E i \in 1..Len(table) : table[i][field] = value

\* The declared references of a row of table t that do not resolve.
ForeignKeyFails(t, row, tables) ==
    CASE t = "orders" -> ~HasRow(tables.customers, "customer_id", row.customer_id)
      [] t = "order_items" ->
            \/ ~HasRow(tables.orders, "order_id", row.order_id)
            \/ ~HasRow(tables.products, "product_id", row.product_id)
      [] t = "reviews" ->
            \/ ~HasRow(tables.products, "product_id", row.product_id)
            \/ ~HasRow(tables.customers, "customer_id", row.customer_id)
      [] OTHER -> FALSE

\* The constraint of the schema that one INSERT violates ("none": none).
Violation(t, row, tables) ==
    IF \E i \in 1..Len(tables[t]) : PrimaryKey(t, tables[t][i]) = PrimaryKey(t, row)
    THEN "IntegrityError: UNIQUE constraint failed (primary key)"
    ELSE IF t = "customers" /\ HasRow(tables.customers, "email", row.email)
    THEN "IntegrityError: UNIQUE constraint failed: customers.email"
    ELSE IF t = "products" /\ HasRow(tables.products, "sku", row.sku)
    THEN "IntegrityError: UNIQUE constraint failed: products.sku"
    ELSE IF t = "reviews" /\ ~(row.rating >= 1 /\ row.rating <= 5)
    THEN "IntegrityError: CHECK constraint failed"
    ELSE IF ForeignKeysEnforced /\ ForeignKeyFails(t, row, tables)
    THEN "IntegrityError: FOREIGN KEY constraint failed"
    ELSE "none"

\* cursor.executemany: one INSERT per row, stopping at the first that
\* fails; the rows before it stay in the open transaction.
RECURSIVE ExecuteMany(_, _, _, _)
ExecuteMany(t, rows, tables, i) ==
    IF i > Len(rows) THEN [tables |-> tables, error |-> "none"]
    ELSE LET v == Violation(t, rows[i], tables)
         IN  IF v # "none" THEN [tables |-> tables, error |-> v]
             ELSE ExecuteMany(t, rows, [tables EXCEPT ![t] = Append(@, rows[i])], i + 1)

\* insert_<t>(cursor): parse every row, then executemany.
InsertRows(t, rows, tables) ==
    IF ParseFails(t, rows) THEN [tables |-> tables, error |-> "ValueError"]
    ELSE ExecuteMany(t, rows, tables, 1)

\* Mutant of InsertSequence: insert_orders called before insert_products.
InsertSequenceOrdersEarly == <<"customers", "orders", "products", "order_items", "reviews">>

\* The order in which main calls the five insert functions.
InsertSequence == <<"customers", "products", "orders", "order_items", "reviews">>

\* Mutant of MissingFiles: only the first file is looked for.
MissingFilesFirstOnly == {"customers.csv"} \ present

\* [f for f in csv_files if not os.path.exists(f)]
MissingFiles == Files \ present

\* Mutant of AfterExcept: the except block commits what was inserted.
AfterExceptCommits(committed, pending) == pending

\* What the store holds after the except block of main: conn.rollback()
\* drops the rows of the open transaction.
AfterExcept(committed, pending) == committed

\* What the store holds after conn.commit().
AfterCommit(committed, pending) == pending

\* The three NOT EXISTS counts of verify_data.
OrphanOrders(tables) ==
    Cardinality({i \in 1..Len(tables.orders) :
        ~HasRow(tables.customers, "customer_id", tables.orders[i].customer_id)})
OrphanItems(tables) ==
    Cardinality({i \in 1..Len(tables.order_items) :
        ~HasRow(tables.orders, "order_id", tables.order_items[i].order_id)})
InvalidProducts(tables) ==
    Cardinality({i \in 1..Len(tables.order_items) :
        ~HasRow(tables.products, "product_id", tables.order_items[i].product_id)})

LoadInit ==
    /\ NUM_CUSTOMERS = 0
    /\ NUM_PRODUCTS = 0
    /\ NUM_ORDERS = 0
    /\ NUM_REVIEWS = 0
    /\ customersCsv = <<>>
    /\ productsCsv = <<>>
    /\ ordersCsv = <<>>
    /\ orderItemsCsv = <<>>
    /\ reviewsCsv = <<>>
    /\ gpc = "idle"
    /\ order_totals = <<>>
    /\ applications = 0
    /\ present \in SUBSET Files
    /\ lpc = "check"
    /\ db \in {NoDb, OldDb}
    /\ txn = EmptyTables
    /\ log = <<>>
    /\ exitStatus = -1
    /\ error = "none"
    /\ warned = FALSE

\* main, up to the return on missing files.
CheckFiles ==
    /\ lpc = "check"
    /\ IF MissingFiles # {}
       THEN /\ lpc' = "exit"
            /\ exitStatus' = 0
       ELSE /\ lpc' = "create"
            /\ UNCHANGED exitStatus
    /\ UNCHANGED <<genVars, present, db, txn, log, error, warned>>

\* create_database: remove the store if it exists, create the schema, commit.
CreateDatabase ==
    /\ lpc = "create"
    /\ db' = [exists |-> TRUE, schema |-> TRUE, old |-> FALSE, tables |-> EmptyTables]
    /\ txn' = EmptyTables
    /\ lpc' = "insert"
    /\ UNCHANGED <<genVars, present, log, exitStatus, error, warned>>

\* One insert_<t> call of main, with the except and finally blocks when it raises.
InsertTable(t) ==
    /\ lpc = "insert"
    /\ Len(log) < Len(InsertSequence)
    /\ InsertSequence[Len(log) + 1] = t
    /\ \E rows \in FileRows(t) :
         LET r == IF FileOf(t) \in present THEN InsertRows(t, rows, txn)
                  ELSE [tables |-> txn, error |-> "FileNotFoundError"]
         IN  IF r.error = "none"
             THEN /\ txn' = r.tables
                  /\ log' = Append(log, [table |-> t, count |-> Len(rows)])
                  /\ UNCHANGED <<lpc, db, exitStatus, error>>
             ELSE /\ db' = [db EXCEPT !.tables = AfterExcept(db.tables, r.tables)]
                  /\ txn' = EmptyTables
                  /\ error' = r.error
                  /\ exitStatus' = 1
                  /\ lpc' = "exit"
                  /\ UNCHANGED log
    /\ UNCHANGED <<genVars, present, warned>>

InsertCustomers == InsertTable("customers")
InsertProducts == InsertTable("products")
InsertOrders == InsertTable("orders")
InsertOrderItems == InsertTable("order_items")
InsertReviews == InsertTable("reviews")

\* conn.commit() after the five inserts.
Commit ==
    /\ lpc = "insert"
    /\ Len(log) = Len(InsertSequence)
    /\ db' = [db EXCEPT !.tables = AfterCommit(db.tables, txn)]
    /\ txn' = EmptyTables
    /\ lpc' = "verify"
    /\ UNCHANGED <<genVars, present, log, exitStatus, error, warned>>

\* verify_data and the rest of main: the process ends with status 0.
VerifyData ==
    /\ lpc = "verify"
    /\ warned' = ~(OrphanOrders(db.tables) = 0 /\ OrphanItems(db.tables) = 0
                   /\ InvalidProducts(db.tables) = 0)
    /\ exitStatus' = 0
    /\ lpc' = "exit"
    /\ UNCHANGED <<genVars, present, db, txn, log, error>>

LoadNext ==
    \/ CheckFiles
    \/ CreateDatabase
    \/ InsertCustomers
    \/ InsertProducts
    \/ InsertOrders
    \/ InsertOrderItems
    \/ InsertReviews
    \/ Commit
    \/ VerifyData

SpecLoad == LoadInit /\ [][LoadNext]_vars

(***************************************************************************)
(* Properties of generate_data.py, checked under Spec.                     *)
(***************************************************************************)

\* The rows of order_items.csv that reference order o, by position.
ItemsOf(o) == {i \in 1..Len(orderItemsCsv) : orderItemsCsv[i].order_id = o}

\* sum(item.subtotal for item in items of order o), in file order.
RECURSIVE SubtotalSum(_, _)
SubtotalSum(o, n) ==
    IF n = 0 THEN 0
    ELSE SubtotalSum(o, n - 1)
         + (IF orderItemsCsv[n].order_id = o THEN orderItemsCsv[n].subtotal ELSE 0)

\* C1: once generate_order_items has run, every order with at least one
\* item has total_amount = round(sum of its items' subtotals + its
\* shipping_cost, 2), the rounding applied once to the whole sum.
C1_TotalsReconciled ==
    applications >= 1 =>
        \A i \in 1..Len(ordersCsv) :
            ItemsOf(ordersCsv[i].order_id) # {} =>
                ordersCsv[i].total_amount =
                    Round2(SubtotalSum(ordersCsv[i].order_id, Len(orderItemsCsv))
                           + ordersCsv[i].shipping_cost)

\* Two reconciled orders, one of them with two items of different subtotals.
C1_Witness ==
    /\ applications >= 1
    /\ Len(ordersCsv) = 2
    /\ ItemsOf(2) # {}
    /\ \E i, j \in ItemsOf(1) : orderItemsCsv[i].subtotal # orderItemsCsv[j].subtotal

\* C2: applying update_order_totals again to the reconciled orders.csv with
\* the same order_totals leaves every row of the file, and so every
\* total_amount, as the first application left it.
C2_ReconcileIdempotent ==
    [][(applications >= 1 /\ applications' = applications + 1) => ordersCsv' = ordersCsv]_vars

\* A second application has run on an order whose total is not the placeholder.
C2_Witness ==
    /\ applications = 2
    /\ \E i \in 1..Len(ordersCsv) : ordersCsv[i].total_amount > ordersCsv[i].shipping_cost

\* C3: after reconciliation an order without order items has
\* total_amount = shipping_cost.
C3_ZeroItemsTotalIsShipping ==
    applications >= 1 =>
        \A i \in 1..Len(ordersCsv) :
            ItemsOf(ordersCsv[i].order_id) = {} =>
                ordersCsv[i].total_amount = ordersCsv[i].shipping_cost

\* Zero customers or zero products configured while orders or reviews are asked for.
BadConfig ==
    /\ NUM_CUSTOMERS = 0 \/ NUM_PRODUCTS = 0
    /\ NUM_ORDERS > 0 \/ NUM_REVIEWS > 0

\* C5: with zero customers or zero products and orders or reviews asked
\* for, the generator creates no file, never runs to completion, and never
\* writes an order that has no items.
C5_FailsFastBeforeIO ==
    BadConfig =>
        /\ present = {}
        /\ gpc # "done"
        /\ applications >= 1 => \A i \in 1..Len(ordersCsv) : ItemsOf(ordersCsv[i].order_id) # {}

\* The five generated files as the tables the loader fills from them.
GeneratedTables ==
    [customers |-> customersCsv, products |-> productsCsv, orders |-> ordersCsv,
     order_items |-> orderItemsCsv, reviews |-> reviewsCsv]

\* C9: after a complete run with customers and products, every order names
\* a customer of customers.csv, every order item an order of orders.csv and
\* a product of products.csv, every review a customer and a product, and
\* the three counts of verify_data are zero on the generated data.
C9_ReferencesResolve ==
    (gpc = "done" /\ NUM_CUSTOMERS > 0 /\ NUM_PRODUCTS > 0) =>
        /\ \A i \in 1..Len(ordersCsv) :
              \E c \in 1..Len(customersCsv) :
                  customersCsv[c].customer_id = ordersCsv[i].customer_id
        /\ \A i \in 1..Len(orderItemsCsv) :
              /\ \E o \in 1..Len(ordersCsv) :
                    ordersCsv[o].order_id = orderItemsCsv[i].order_id
              /\ \E q \in 1..Len(productsCsv) :
                    productsCsv[q].product_id = orderItemsCsv[i].product_id
        /\ \A i \in 1..Len(reviewsCsv) :
              /\ \E c \in 1..Len(customersCsv) :
                    customersCsv[c].customer_id = reviewsCsv[i].customer_id
              /\ \E q \in 1..Len(productsCsv) :
                    productsCsv[q].product_id = reviewsCsv[i].product_id
        /\ OrphanOrders(GeneratedTables) = 0
        /\ OrphanItems(GeneratedTables) = 0
        /\ InvalidProducts(GeneratedTables) = 0

\* A complete run that wrote orders, order items and a review.
C9_Witness ==
    /\ gpc = "done"
    /\ Len(customersCsv) = 2
    /\ Len(ordersCsv) = 2
    /\ Len(orderItemsCsv) >= 3
    /\ Len(reviewsCsv) >= 1

\* C11: a call of update_order_totals (the one generate_order_items makes,
\* or a later one) rewrites orders.csv with the same orders in the same
\* sequence, whether their total was updated or not, and changes no field
\* of a row other than total_amount.
C11_OnlyTotalAmountChanges ==
    [][applications' = applications + 1 =>
          /\ Len(ordersCsv') = Len(ordersCsv)
          /\ \A i \in 1..Len(ordersCsv) :
                [ordersCsv'[i] EXCEPT !.total_amount = ordersCsv[i].total_amount]
                    = ordersCsv[i]]_vars

\* Two orders that differ in customer and shipping cost have been
\* reconciled, and the total of the first was updated.
C11_Witness ==
    /\ applications >= 1
    /\ Len(ordersCsv) = 2
    /\ ordersCsv[1].customer_id # ordersCsv[2].customer_id
    /\ ordersCsv[1].shipping_cost # ordersCsv[2].shipping_cost
    /\ ordersCsv[1].total_amount > 0

\* C12: once generate_order_items has run, every order has between 1 and 5
\* items and no more items than there are products, no two items of one
\* order name the same product, and the order_item_id values are 1..N in
\* the order the items were generated.
C12_ItemsPerOrder ==
    applications >= 1 =>
        /\ \A k \in 1..Len(ordersCsv) :
              LET items == ItemsOf(ordersCsv[k].order_id)
              IN  /\ Cardinality(items) >= 1
                  /\ Cardinality(items) <= 5
                  /\ Cardinality(items) <= NUM_PRODUCTS
                  /\ \A i, j \in items :
                        i # j => orderItemsCsv[i].product_id # orderItemsCsv[j].product_id
        /\ \A i \in 1..Len(orderItemsCsv) : orderItemsCsv[i].order_item_id = i

(***************************************************************************)
(* Properties of ingest_to_db.py, checked under SpecLoad.                  *)
(***************************************************************************)

\* C4: when an insertion fails, in whichever table, the store exists with
\* its five tables, all of them empty, nothing is left in a transaction, and
\* the error reaches the caller (the process ends with a non-zero status).
C4_FailedLoadLeavesSchemaOnly ==
    (lpc = "exit" /\ error # "none") =>
        /\ db.exists /\ db.schema /\ ~db.old
        /\ db.tables = EmptyTables
        /\ txn = EmptyTables
        /\ exitStatus = 1

\* An insertion failed after two tables had been filled, the first with rows.
C4_Witness ==
    /\ lpc = "exit"
    /\ error # "none"
    /\ Len(log) >= 2
    /\ log[1].count > 0

\* C6: as long as an input file is missing, no step of the loader changes
\* the store, opens a transaction or inserts a row.
C6_MissingInputLeavesStore ==
    [][(Files \ present # {}) => (db' = db /\ txn' = txn /\ log' = log)]_vars

\* The loader has ended on missing input with an earlier store on disk.
C6_Witness ==
    /\ lpc = "exit"
    /\ Files \ present # {}
    /\ db = OldDb

\* C7: the loader ends with a non-zero status whenever it ends on an
\* unrecoverable error: missing input files, or a failed insertion.
C7_NonZeroExitOnError ==
    (lpc = "exit" /\ (Files \ present # {} \/ error # "none")) => exitStatus # 0

\* The tables whose insert function has completed.
Logged == {log[i].table : i \in 1..Len(log)}

\* Table t holds rows, in the open transaction or committed by this run.
Populated(t) == txn[t] # <<>> \/ (~db.old /\ db.tables[t] # <<>>)

\* C8: customers and products are inserted before orders, orders before
\* order items, customers and products before reviews.
C8_DependencyOrder ==
    /\ ("orders" \in Logged \/ Populated("orders")) =>
            {"customers", "products"} \subseteq Logged
    /\ ("order_items" \in Logged \/ Populated("order_items")) => "orders" \in Logged
    /\ ("reviews" \in Logged \/ Populated("reviews")) =>
            {"customers", "products"} \subseteq Logged

\* All five inserts have run, each on a file with rows.
C8_Witness ==
    /\ Len(log) = 5
    /\ \A i \in 1..5 : log[i].count > 0

\* An order whose customer is absent, or an order item whose order or
\* product is absent.
Dangling(tables) ==
    \/ \E i \in 1..Len(tables.orders) :
          \A c \in 1..Len(tables.customers) :
              tables.customers[c].customer_id # tables.orders[i].customer_id
    \/ \E i \in 1..Len(tables.order_items) :
          \/ \A o \in 1..Len(tables.orders) :
                tables.orders[o].order_id # tables.order_items[i].order_id
          \/ \A q \in 1..Len(tables.products) :
                tables.products[q].product_id # tables.order_items[i].product_id

\* C10: verification starts only after the commit; no insertion fails on a
\* dangling reference; and when the five inserts have run, the loader ends
\* without error, with every inserted row committed, and with the warning
\* printed exactly when the data holds a dangling reference.
C10_DanglingIsWarningOnly ==
    /\ lpc = "verify" => (txn = EmptyTables /\ Len(log) = 5)
    /\ error # "IntegrityError: FOREIGN KEY constraint failed"
    /\ (lpc = "exit" /\ Len(log) = 5) =>
          /\ error = "none"
          /\ exitStatus = 0
          /\ \A i \in 1..5 : Len(db.tables[log[i].table]) = log[i].count
          /\ warned <=> Dangling(db.tables)

\* A load of data with a dangling order ended committed and warned.
C10_Witness ==
    /\ lpc = "exit"
    /\ exitStatus = 0
    /\ warned
    /\ OrphanOrders(db.tables) > 0
    /\ db.tables.orders # <<>>

====
